---------------------------- MODULE Spec2Model ----------------------------
(***************************************************************************)
(* Model of src/main.py: selection loading and filtering, the strict        *)
(* response parser, per-question classification with its error routing,    *)
(* the read-concatenate-rewrite output store and the fixed run loop.       *)
(*                                                                         *)
(* A Python str is a sequence of one-character strings.  A Python list is  *)
(* a sequence, a set is a set, a dict is a function.  A call that may      *)
(* raise returns a record with field ok; ok = FALSE carries the message.   *)
(***************************************************************************)
EXTENDS Integers, Sequences, FiniteSets, TLC

VARIABLES
    pc,         \* position of the module-level script / processar_ano_semestre
    par,        \* index into ANOS_SEMESTRES of the pair being visited
    pasta,      \* os.listdir of the current pair's folder (entries with is_file)
    arquivos,   \* list returned by listar_arquivos_para_processar
    pos,        \* index into arquivos of the file being processed
    SELECOES,   \* module global set at line 98
    amb,        \* what the collaborators answer for the current file
    resultado,  \* (classificacoes, materia, gabarito) returned for the file
    saida,      \* ARQUIVO_SAIDA: [existe, linhas]
    log,        \* last record written by logging
    anexadas,   \* history: the rows of every completed rewrite, in order
    visitados,  \* history: the files of this pair whose loop body was entered
    entrada,    \* arguments of a function under direct call
    retorno     \* value returned by the function under direct call

vars == <<pc, par, pasta, arquivos, pos, SELECOES, amb, resultado, saida, log,
          anexadas, visitados, entrada, retorno>>

-----------------------------------------------------------------------------
(* Python str primitives *)

NL == "\n"

\* str.isspace for the characters of the model
IsSpace(c) == c \in {" ", NL, "\t", "\r"}

RECURSIVE LStrip(_)
LStrip(s) == IF s # <<>> /\ IsSpace(Head(s)) THEN LStrip(Tail(s)) ELSE s

RECURSIVE RStrip(_)
RStrip(s) ==
    IF s # <<>> /\ IsSpace(s[Len(s)]) THEN RStrip(SubSeq(s, 1, Len(s) - 1)) ELSE s

\* str.strip()
Strip(s) == RStrip(LStrip(s))

\* str.split(d) for a one-character separator d: always at least one field
RECURSIVE Split(_, _)
Split(s, d) ==
    IF \A i \in 1..Len(s) : s[i] # d
    THEN <<s>>
    ELSE LET k == CHOOSE i \in 1..Len(s) :
                      s[i] = d /\ \A j \in 1..(i - 1) : s[j] # d
         IN  <<SubSeq(s, 1, k - 1)>> \o Split(SubSeq(s, k + 1, Len(s)), d)

\* str.startswith(p)
StartsWith(s, p) == Len(s) >= Len(p) /\ SubSeq(s, 1, Len(p)) = p

\* str.endswith(p)
EndsWith(s, p) ==
    Len(s) >= Len(p) /\ SubSeq(s, Len(s) - Len(p) + 1, Len(s)) = p

\* d in s, for a one-character d
Contains(s, d) == \E i \in 1..Len(s) : s[i] = d

\* "\n".join(ls)
RECURSIVE Join(_)
Join(ls) ==
    IF ls = <<>> THEN <<>>
    ELSE IF Len(ls) = 1 THEN ls[1]
    ELSE ls[1] \o <<NL>> \o Join(Tail(ls))

Digits == <<"0", "1", "2", "3", "4", "5", "6", "7", "8", "9">>

IsDigitChar(c) == \E d \in 1..10 : Digits[d] = c

DigitVal(c) == (CHOOSE d \in 1..10 : Digits[d] = c) - 1

\* str.isdigit(): non-empty and every character a digit
IsDigit(s) == s # <<>> /\ \A i \in 1..Len(s) : IsDigitChar(s[i])

RECURSIVE DigitsValue(_)
DigitsValue(s) ==
    IF s = <<>> THEN 0
    ELSE 10 * DigitsValue(SubSeq(s, 1, Len(s) - 1)) + DigitVal(s[Len(s)])

\* int(s) for a str: surrounding whitespace and one sign are accepted
IntOfStr(s) ==
    LET t == Strip(s)
        signed == t # <<>> /\ t[1] \in {"+", "-"}
        body == IF signed THEN Tail(t) ELSE t
    IN  IF IsDigit(body)
        THEN [ok |-> TRUE,
              val |-> IF signed /\ t[1] = "-" THEN 0 - DigitsValue(body)
                      ELSE DigitsValue(body)]
        ELSE [ok |-> FALSE, val |-> 0]

RECURSIVE NatToStr(_)
NatToStr(n) ==
    IF n < 10 THEN <<Digits[n + 1]>>
    ELSE NatToStr(n \div 10) \o <<Digits[(n % 10) + 1]>>

\* str(n) for an int
StrOfInt(n) == IF n < 0 THEN <<"-">> \o NatToStr(0 - n) ELSE NatToStr(n)


-----------------------------------------------------------------------------
(* processar_resposta_gemini, lines 102-124 *)

PrefixoCabecalho == <<"|", " ", "t", "e", "m", "a">>
PrefixoSeparador == <<"|", "-", "-", "-">>

\* line 108: the stripped line is skipped
LinhaIgnorada(linha) ==
    \/ linha = <<>>
    \/ ~Contains(linha, "|")
    \/ StartsWith(linha, PrefixoCabecalho)
    \/ StartsWith(linha, PrefixoSeparador)

\* line 110: [p.strip() for p in linha.split("|")]
Partes(linha) ==
    LET campos == Split(linha, "|")
    IN  [i \in 1..Len(campos) |-> Strip(campos[i])]

\* a parser that takes any line of 3 or more fields
ColunasLenientes(partes) == Len(partes) >= 3

\* line 112, negated: the field count the parser accepts
ColunasAceitas(partes) == Len(partes) = 5

\* line 118
TemaDe(partes) == partes[3]

\* line 119
TopicoDe(partes) == partes[4]

\* line 115: the constant pieces of the f-string
MsgInesperada ==
    <<"R", "e", "s", "p", "o", "s", "t", "a", " ", "i", "n", "e", "s",
      "p", "e", "r", "a", "d", "a", " ", "p", "a", "r", "a", " ", "Q">>
MsgEsperado ==
    <<"'", " ", "(", "e", "s", "p", "e", "r", "a", "d", "o", " ", "5",
      " ", "c", "o", "l", "u", "n", "a", "s", ",", " ", "o", "b", "t",
      "e", "v", "e", " ">>

\* lines 114-116: str(e) of the ValueError raised
ErroDeColunas(numero_questao, linha, partes) ==
    MsgInesperada \o numero_questao \o <<":", " ", "'">> \o linha
        \o MsgEsperado \o StrOfInt(Len(partes)) \o <<")">>

\* lines 106-124: the loop over the lines, acc being linhas_classificadas
RECURSIVE ProcessarLinhas(_, _, _)
ProcessarLinhas(linhas, numero_questao, acc) ==
    IF linhas = <<>> THEN [ok |-> TRUE, linhas |-> acc, erro |-> <<>>]
    ELSE LET linha == Strip(Head(linhas))
         IN  IF LinhaIgnorada(linha)
             THEN ProcessarLinhas(Tail(linhas), numero_questao, acc)
             ELSE LET partes == Partes(linha)
                  IN  IF ~ColunasAceitas(partes)
                      THEN [ok |-> FALSE, linhas |-> <<>>,
                            erro |-> ErroDeColunas(numero_questao, linha, partes)]
                      ELSE IF TemaDe(partes) # <<>> /\ TopicoDe(partes) # <<>>
                      THEN ProcessarLinhas(Tail(linhas), numero_questao,
                               Append(acc, [numero_questao |-> numero_questao,
                                            tema |-> TemaDe(partes),
                                            topico |-> TopicoDe(partes)]))
                      ELSE ProcessarLinhas(Tail(linhas), numero_questao, acc)

processar_resposta_gemini(resposta, numero_questao) ==
    ProcessarLinhas(Split(Strip(resposta), NL), numero_questao, <<>>)


-----------------------------------------------------------------------------
(* carregar_selecoes, lines 73-95 *)

\* The content of selecoes.json is
\*   [existe |-> FALSE]                       no such file
\*   [existe |-> TRUE, lista |-> FALSE]       JSON that is not a list
\*   [existe |-> TRUE, lista |-> TRUE, itens |-> <<item, ...>>]
\* an item is [ano, semestre, questao]; questao is [tipo |-> "str", s |-> chars]
\* or [tipo |-> "int", n |-> number].

DictVazio == <<>>

\* a loader that keeps a non-numeric identifier, trimmed
QuestaoSemInt(q) ==
    IF q.tipo = "int" THEN [ok |-> TRUE, s |-> StrOfInt(q.n)]
    ELSE IF IntOfStr(q.s).ok
    THEN [ok |-> TRUE, s |-> StrOfInt(IntOfStr(q.s).val)]
    ELSE [ok |-> TRUE, s |-> Strip(q.s)]

\* line 90: str(int(item["questao"])); int() raises on a non-numeric str
QuestaoCanonica(q) ==
    IF q.tipo = "int" THEN [ok |-> TRUE, s |-> StrOfInt(q.n)]
    ELSE IF IntOfStr(q.s).ok
    THEN [ok |-> TRUE, s |-> StrOfInt(IntOfStr(q.s).val)]
    ELSE [ok |-> FALSE, s |-> <<>>]

\* lines 85-92: the dict built by the loop when no item raises
SelecoesDe(itens) ==
    LET chaves == {<<itens[i].ano, itens[i].semestre>> : i \in 1..Len(itens)}
    IN  [k \in chaves |->
            {QuestaoCanonica(itens[i].questao).s :
                i \in {j \in 1..Len(itens) :
                          <<itens[j].ano, itens[j].semestre>> = k}}]

\* lines 78-95
carregar_selecoes(arq) ==
    IF ~arq.existe THEN DictVazio
    ELSE IF ~arq.lista THEN DictVazio
    ELSE IF Len(arq.itens) = 0 THEN DictVazio
    ELSE IF \E i \in 1..Len(arq.itens) : ~QuestaoCanonica(arq.itens[i].questao).ok
    THEN DictVazio     \* except Exception: return {}
    ELSE SelecoesDe(arq.itens)

-----------------------------------------------------------------------------
(* listar_arquivos_para_processar, lines 220-274 *)

Maiusculas == <<"A", "B", "C", "D", "E", "F", "G", "H", "I", "J", "K", "L", "M",
                "N", "O", "P", "Q", "R", "S", "T", "U", "V", "W", "X", "Y", "Z">>
Minusculas == <<"a", "b", "c", "d", "e", "f", "g", "h", "i", "j", "k", "l", "m",
                "n", "o", "p", "q", "r", "s", "t", "u", "v", "w", "x", "y", "z">>

\* str.lower()
Lower(s) ==
    [i \in 1..Len(s) |->
        IF \E u \in 1..26 : Maiusculas[u] = s[i]
        THEN Minusculas[CHOOSE u \in 1..26 : Maiusculas[u] = s[i]]
        ELSE s[i]]

\* line 27: the allow-list read from the environment, lower-cased
EXTENSOES == {<<".", "p", "n", "g">>, <<".", "j", "p", "g">>}

\* Path(f).stem for a bare file name: the name without its last suffix; a
\* leading or a trailing dot starts no suffix
Stem(f) ==
    LET pontos == {i \in 1..Len(f) : f[i] = "."}
        k == CHOOSE i \in pontos : \A j \in pontos : j <= i
    IN  IF pontos = {} THEN f
        ELSE IF k > 1 /\ k < Len(f) THEN SubSeq(f, 1, k - 1)
        ELSE f

\* line 231, without the is_file test
ExtensaoAceita(f) == \E e \in EXTENSOES : EndsWith(Lower(f), e)

\* lines 228-232
Nomes(entradas) == [i \in 1..Len(entradas) |-> entradas[i].nome]

EhCandidato(e) == ExtensaoAceita(e.nome) /\ e.is_file

Todos(entradas) == Nomes(SelectSeq(entradas, EhCandidato))

\* line 235
ha_selecoes_globais(selecoes) == \E k \in DOMAIN selecoes : selecoes[k] # {}

\* line 238: selecoes.get((ano, semestre), set())
Chaves(selecoes, ano, semestre) ==
    IF <<ano, semestre>> \in DOMAIN selecoes THEN selecoes[<<ano, semestre>>]
    ELSE {}

\* a comparison of the raw base name
NomeSemNormalizar(stem) == stem

\* lines 256-257
normaliza_nome(stem) ==
    IF IsDigit(stem) THEN StrOfInt(DigitsValue(stem)) ELSE Strip(stem)

\* lines 259-263
Filtrados(todos, chaves) ==
    LET Casa(f) == normaliza_nome(Stem(f)) \in chaves
    IN  SelectSeq(todos, Casa)

\* a filter for which no keys always means no restriction
SemChavesDevolveTodos(todos, selecoes) == todos

\* lines 241-252: what is returned when this pair has no keys
SemChaves(todos, selecoes) ==
    IF ha_selecoes_globais(selecoes) THEN <<>> ELSE todos

\* lines 223-274; pst is [existe, entradas]
listar_arquivos_para_processar(pst, ano, semestre, selecoes) ==
    IF ~pst.existe THEN <<>>
    ELSE LET todos == Todos(pst.entradas)
             chaves == Chaves(selecoes, ano, semestre)
         IN  IF chaves = {} THEN SemChaves(todos, selecoes)
             ELSE Filtrados(todos, chaves)


-----------------------------------------------------------------------------
(* obter_info_questao, lines 127-142 *)

\* line 65: the reference dataset (numero_questao, ano, semestre, materia,
\* gabarito); the rows stand for the spreadsheet read at start-up
bd_questoes ==
    << [numero_questao |-> 7, ano |-> 2015, semestre |-> 1,
        materia |-> <<"F", "i", "s", "i", "c", "a">>, gabarito |-> <<"A">>],
       [numero_questao |-> 7, ano |-> 2015, semestre |-> 1,
        materia |-> <<"Q", "u", "i", "m", "i", "c", "a">>, gabarito |-> <<"B">>],
       [numero_questao |-> 12, ano |-> 2015, semestre |-> 2,
        materia |-> <<"Q", "u", "i", "m", "i", "c", "a">>, gabarito |-> <<"C">>] >>

NaoDisponivel == <<"N", "/", "A">>

\* lines 128-142: int(numero_questao) raising is caught here and gives N/A
obter_info_questao(numero_questao, ano, semestre) ==
    LET n == IntOfStr(numero_questao)
        Casa(r) == /\ r.numero_questao = n.val
                   /\ r.ano = ano
                   /\ r.semestre = semestre
        m == SelectSeq(bd_questoes, Casa)
    IN  IF ~n.ok THEN [materia |-> NaoDisponivel, gabarito |-> NaoDisponivel]
        ELSE IF m # <<>>
        THEN [materia |-> m[1].materia, gabarito |-> m[1].gabarito]
        ELSE [materia |-> NaoDisponivel, gabarito |-> NaoDisponivel]

-----------------------------------------------------------------------------
(* classificar_questao, lines 145-213 *)

\* The reply format the prompt shows, lines 178-182 (accents dropped)
\* line 178
ExemploCabecalho ==
    <<"|", " ", "t", "e", "m", "a", " ", "|", " ", "t", "o", "p", "i",
      "c", "o", " ", "|">>
\* line 179
ExemploSeparador ==
    <<"|", "-", "-", "-", "|", "-", "-", "-", "|">>
\* line 180
ExemploLinha1 ==
    <<"|", " ", "G", "r", "a", "n", "d", "e", "z", "a", "s", " ", "f",
      "i", "s", "i", "c", "a", "s", " ", "|", " ", "M", "e", "d", "i",
      "c", "a", "o", " ", "d", "e", " ", "t", "e", "m", "p", "o", " ",
      "|">>
\* line 181
ExemploLinha2 ==
    <<"|", " ", "E", "l", "e", "t", "r", "o", "d", "i", "n", "a", "m",
      "i", "c", "a", " ", "|", " ", "C", "o", "r", "r", "e", "n", "t",
      "e", " ", "e", "l", "e", "t", "r", "i", "c", "a", " ", "|">>
\* line 182
ExemploLinha3 ==
    <<"|", " ", "E", "l", "e", "t", "r", "o", "s", "t", "a", "t", "i",
      "c", "a", " ", "|", " ", "C", "a", "r", "g", "a", " ", "e", "l",
      "e", "t", "r", "i", "c", "a", " ", "|">>

\* lines 178-182 as one reply text
RespostaExemplo ==
    Join(<<ExemploCabecalho, ExemploSeparador, ExemploLinha1, ExemploLinha2,
           ExemploLinha3>>)

\* line 207
Erro == <<"E", "R", "R", "O">>

\* line 208: the constant piece of the f-string
PrefixoErro == <<"E", "r", "r", "o", ":", " ">>

\* lines 203-213: what the except clause returns; e is str(e)
RetornoDeErro(numero_questao, e) ==
    [classificacoes |-> << [numero_questao |-> numero_questao,
                            tema |-> Erro,
                            topico |-> PrefixoErro \o e] >>,
     materia |-> Erro, gabarito |-> Erro]

\* a handler that keeps the lookup's answer beside the error row
RetornoComInfo(numero_questao, r, info) ==
    IF r.ok
    THEN [classificacoes |-> r.linhas,
          materia |-> info.materia, gabarito |-> info.gabarito]
    ELSE [classificacoes |-> RetornoDeErro(numero_questao, r.erro).classificacoes,
          materia |-> info.materia, gabarito |-> info.gabarito]

\* lines 199-200 and 201-213: the value returned once the reply is parsed; r
\* is the parser's result, info the lookup's
RetornoDoParser(numero_questao, r, info) ==
    IF r.ok
    THEN [classificacoes |-> r.linhas,
          materia |-> info.materia, gabarito |-> info.gabarito]
    ELSE RetornoDeErro(numero_questao, r.erro)

\* str(e) of an exception raised by lines 152-191 and by lines 195-198
MsgPrompt ==
    <<"K", "e", "y", "E", "r", "r", "o", "r">>
MsgLlm ==
    <<"S", "e", "r", "v", "e", "r", "E", "r", "r", "o", "r">>

\* lines 148-213.  falha names the statement of the try block that raises:
\*   "prompt"  lines 152-191 (taxonomy ordering, to_csv, the f-string)
\*   "llm"     lines 195-198 (generate_content, response.text)
\*   "nenhuma" none of them; the parser may still raise
classificar_questao(numero_questao, texto_questao, ano, semestre, falha, resposta) ==
    LET info == obter_info_questao(numero_questao, ano, semestre)
    IN  IF falha = "prompt" THEN RetornoDeErro(numero_questao, MsgPrompt)
        ELSE IF falha = "llm" THEN RetornoDeErro(numero_questao, MsgLlm)
        ELSE RetornoDoParser(numero_questao,
                 processar_resposta_gemini(resposta, numero_questao), info)


-----------------------------------------------------------------------------
(* processar_ano_semestre, lines 277-328, and the main loop, lines 332-335 *)

\* Number of leading pairs of ANOS_SEMESTRES a run of the model visits
MaxPares == 2

\* lines 34-52
ListaCompleta ==
    << <<2015, 1>>, <<2015, 2>>, <<2016, 1>>, <<2016, 2>>, <<2017, 1>>,
       <<2017, 2>>, <<2018, 1>>, <<2018, 2>>, <<2019, 1>>, <<2019, 2>>,
       <<2020, 1>>, <<2022, 2>>, <<2023, 1>>, <<2023, 2>>, <<2024, 1>>,
       <<2024, 2>>, <<2025, 2>> >>

ANOS_SEMESTRES ==
    SubSeq(ListaCompleta, 1,
           IF MaxPares < Len(ListaCompleta) THEN MaxPares ELSE Len(ListaCompleta))

\* line 217: the folder of a pair, named by the pair
construir_caminho_pasta(ano, semestre) == <<ano, semestre>>

\* a loop body that reports an empty classification as an error row
LinhasComErroSeVazio(arquivo, caminho, texto, ano, semestre, res) ==
    LET cs == IF res.classificacoes = <<>>
              THEN RetornoDeErro(Stem(arquivo), <<>>).classificacoes
              ELSE res.classificacoes
    IN  [i \in 1..Len(cs) |->
            [arquivo |-> arquivo, caminho_completo |-> caminho,
             numero_questao |-> cs[i].numero_questao, texto_questao |-> texto,
             tema |-> cs[i].tema, topico |-> cs[i].topico,
             ano |-> ano, semestre |-> semestre,
             materia |-> res.materia, gabarito |-> res.gabarito]]

\* lines 297-312: one output row per classification
LinhasDaQuestao(arquivo, caminho, texto, ano, semestre, res) ==
    [i \in 1..Len(res.classificacoes) |->
        [arquivo |-> arquivo, caminho_completo |-> caminho,
         numero_questao |-> res.classificacoes[i].numero_questao,
         texto_questao |-> texto,
         tema |-> res.classificacoes[i].tema,
         topico |-> res.classificacoes[i].topico,
         ano |-> ano, semestre |-> semestre,
         materia |-> res.materia, gabarito |-> res.gabarito]]

\* a rewrite that forgets the rows read back
GravarSobrescreve(sd, novas) == [estado |-> "ok", linhas |-> novas]

\* lines 314-322: the store after a rewrite that completes; sd.estado is
\* "ausente" (no file), "ok" or "corrompido" (a rewrite was interrupted)
Gravar(sd, novas) ==
    [estado |-> "ok",
     linhas |-> IF sd.estado = "ok" THEN sd.linhas \o novas ELSE novas]

\* a handler that lets the exception leave processar_ano_semestre
PropagaExcecao(p) == [pc |-> "abortado", pos |-> p]

\* lines 327-328: the except clause logs and the for loop goes on
TrataExcecao(p) == [pc |-> "arquivo", pos |-> p + 1]

\* a handler that records the failure as an error row
SaidaComLinhaDeErro(sd, arquivo, caminho, ano, semestre) ==
    Gravar(sd, LinhasDaQuestao(arquivo, caminho, <<>>, ano, semestre,
                               RetornoDeErro(Stem(arquivo), <<>>)))

\* lines 327-328: the except clause writes nothing to the store
SaidaAposExcecao(sd, arquivo, caminho, ano, semestre) == sd

Ano == ANOS_SEMESTRES[par][1]
Semestre == ANOS_SEMESTRES[par][2]
Arquivo == arquivos[pos]
Caminho == <<construir_caminho_pasta(Ano, Semestre), Arquivo>>

\* line 289
NumeroQuestao == Stem(Arquivo)


-----------------------------------------------------------------------------
(* The world of a run: folders, selecoes.json, the collaborators' answers *)

Png == <<".", "p", "n", "g">>

E(nome, is_file) == [nome |-> nome, is_file |-> is_file]

Arq7 == <<"7">> \o Png
Arq007 == <<"0", "0", "7">> \o Png
Arq12 == <<"1", "2">> \o Png
ArqA == <<"a">> \o Png
Arq7Txt == <<"7", ".", "t", "x", "t">>

PastaAusenteNoDisco == [existe |-> FALSE, entradas |-> <<>>]

\* what the i-th pair of ANOS_SEMESTRES may find at its path on disk
PastasDoPar(i) ==
    IF i = 1
    THEN { PastaAusenteNoDisco,
           [existe |-> TRUE,
            entradas |-> <<E(Arq7, TRUE), E(Arq7Txt, TRUE), E(ArqA, TRUE)>>] }
    ELSE IF i = 2
    THEN { PastaAusenteNoDisco,
           [existe |-> TRUE, entradas |-> <<E(Arq12, TRUE), E(Arq007, FALSE)>>],
           [existe |-> TRUE, entradas |-> <<E(Arq007, TRUE)>>] }
    ELSE { PastaAusenteNoDisco,
           [existe |-> TRUE, entradas |-> <<E(Arq7, TRUE)>>] }

Item(ano, semestre, questao) ==
    [ano |-> ano, semestre |-> semestre, questao |-> questao]
QStr(s) == [tipo |-> "str", s |-> s, n |-> 0]
QInt(n) == [tipo |-> "int", s |-> <<>>, n |-> n]

SemArquivo == [existe |-> FALSE, lista |-> FALSE, itens |-> <<>>]
NaoLista == [existe |-> TRUE, lista |-> FALSE, itens |-> <<>>]
Lista(itens) == [existe |-> TRUE, lista |-> TRUE, itens |-> itens]

\* the selecoes.json files a run may start with
SelecoesDaExecucao ==
    { SemArquivo,
      Lista(<<Item(2015, 1, QStr(<<"0", "0", "7">>))>>),
      Lista(<<Item(2015, 1, QStr(<<" ", "7", " ">>)), Item(2015, 2, QInt(7))>>),
      Lista(<<Item(2015, 2, QInt(12)), Item(2015, 1, QStr(<<"a">>))>>) }

\* the text OCR returns
TextosOcr == { <<"q">> }

\* replies of the model
RespostaCinco ==
    <<"|", " ", "7", " ", "|", " ", "M", "e", "c", "a", "n", "i", "c",
      "a", " ", "|", " ", "C", "i", "n", "e", "m", "a", "t", "i", "c",
      "a", " ", "|">>
RespostaQuatro ==
    <<"|", " ", "M", "e", "c", "a", "n", "i", "c", "a", " ", "|", " ",
      "D", "i", "n", "a", "m", "i", "c", "a", " ", "|">>
RespostaSemTopico ==
    <<"|", " ", "7", " ", "|", " ", "M", "e", "c", "a", "n", "i", "c",
      "a", " ", "|", " ", " ", "|">>

Respostas ==
    [exemplo   |-> RespostaExemplo,
     cinco     |-> RespostaCinco,
     vazia     |-> <<>>,
     semtopico |-> Join(<<ExemploCabecalho, RespostaSemTopico>>),
     parcial   |-> Join(<<RespostaCinco, RespostaQuatro>>)]

Falhas == {"nenhuma", "prompt", "llm"}

\* ocr is "-" (not called yet), "ok" or "raise"
AmbVazio == [ocr |-> "-", texto |-> <<>>, falha |-> "nenhuma", resposta |-> "vazia"]
ResultadoVazio == [classificacoes |-> <<>>, materia |-> <<>>, gabarito |-> <<>>]

\* rows a previous run left in the store: 7.png of 2015/1 answered RespostaCinco
LinhasAnteriores ==
    LinhasDaQuestao(Arq7, <<construir_caminho_pasta(2015, 1), Arq7>>, <<"q">>,
        2015, 1,
        classificar_questao(<<"7">>, <<"q">>, 2015, 1, "nenhuma", RespostaCinco))

SaidasIniciais ==
    { [estado |-> "ausente", linhas |-> <<>>],
      [estado |-> "ok", linhas |-> LinhasAnteriores] }

-----------------------------------------------------------------------------
(* The run of the script *)

Init ==
    /\ pc = "par"
    /\ par = 1
    /\ pasta = PastaAusenteNoDisco
    /\ arquivos = <<>>
    /\ pos = 1
    /\ \E a \in SelecoesDaExecucao : SELECOES = carregar_selecoes(a)
    /\ amb = AmbVazio
    /\ resultado = ResultadoVazio
    /\ saida \in SaidasIniciais
    /\ anexadas = saida.linhas
    /\ log = "iniciando"
    /\ visitados = <<>>
    /\ entrada = <<>>
    /\ retorno = <<>>

\* lines 279-281: the folder of the pair does not exist
PastaNaoEncontrada ==
    /\ pc = "par"
    /\ par <= Len(ANOS_SEMESTRES)
    /\ PastaAusenteNoDisco \in PastasDoPar(par)
    /\ pasta' = PastaAusenteNoDisco
    /\ arquivos' = <<>>
    /\ log' = "pasta_nao_encontrada"
    /\ par' = par + 1
    /\ UNCHANGED <<pc, pos, SELECOES, amb, resultado, saida, anexadas,
                   visitados, entrada, retorno>>

\* lines 283-284: the folder exists and its files are selected
ListarPar ==
    /\ pc = "par"
    /\ par <= Len(ANOS_SEMESTRES)
    /\ \E p \in PastasDoPar(par) :
          /\ p.existe
          /\ pasta' = p
          /\ arquivos' = listar_arquivos_para_processar(p, Ano, Semestre, SELECOES)
    /\ pos' = 1
    /\ visitados' = <<>>
    /\ log' = "processando"
    /\ pc' = "arquivo"
    /\ UNCHANGED <<par, SELECOES, amb, resultado, saida, anexadas, entrada, retorno>>

\* lines 286-291, Image.open or image_to_string raises; lines 327-328
OcrFalha ==
    /\ pc = "arquivo"
    /\ pos <= Len(arquivos)
    /\ visitados' = Append(visitados, Arquivo)
    /\ saida' = SaidaAposExcecao(saida, Arquivo, Caminho, Ano, Semestre)
    /\ anexadas' = anexadas
    /\ log' = "erro_ao_processar"
    /\ pc' = TrataExcecao(pos).pc
    /\ pos' = TrataExcecao(pos).pos
    /\ amb' = [AmbVazio EXCEPT !.ocr = "raise"]
    /\ resultado' = ResultadoVazio
    /\ UNCHANGED <<par, pasta, arquivos, SELECOES, entrada, retorno>>

\* lines 286-291, OCR returns the text
OcrOk ==
    /\ pc = "arquivo"
    /\ pos <= Len(arquivos)
    /\ visitados' = Append(visitados, Arquivo)
    /\ \E t \in TextosOcr : amb' = [AmbVazio EXCEPT !.ocr = "ok", !.texto = t]
    /\ resultado' = ResultadoVazio
    /\ pc' = "classificar"
    /\ UNCHANGED <<par, pasta, arquivos, pos, SELECOES, saida, anexadas, log,
                   entrada, retorno>>

\* lines 293-295: the call of classificar_questao, which never raises
Classificar ==
    /\ pc = "classificar"
    /\ \E f \in Falhas, r \in DOMAIN Respostas :
          /\ amb' = [amb EXCEPT !.falha = f, !.resposta = r]
          /\ resultado' = classificar_questao(NumeroQuestao, amb.texto, Ano,
                                              Semestre, f, Respostas[r])
    /\ log' = IF resultado'.materia = Erro THEN "erro_ao_classificar"
              ELSE "enviando"
    /\ pc' = "gravar"
    /\ UNCHANGED <<par, pasta, arquivos, pos, SELECOES, saida, anexadas,
                   visitados, entrada, retorno>>

\* lines 297-325: the rows are built and the rewrite completes
GravarOk ==
    /\ pc = "gravar"
    /\ saida.estado # "corrompido"
    /\ LET novas == LinhasDaQuestao(Arquivo, Caminho, amb.texto, Ano, Semestre,
                                    resultado)
       IN  /\ saida' = Gravar(saida, novas)
           /\ anexadas' = anexadas \o novas
    /\ log' = "salva"
    /\ pos' = pos + 1
    /\ pc' = "arquivo"
    /\ UNCHANGED <<par, pasta, arquivos, SELECOES, amb, resultado, visitados,
                   entrada, retorno>>

\* lines 316-322 raise (read_excel on a damaged file, to_excel failing);
\* lines 327-328.  A rewrite that stops half way leaves a damaged file.
GravarFalha ==
    /\ pc = "gravar"
    /\ \E interrompida \in BOOLEAN :
          /\ saida.estado = "corrompido" => ~interrompida
          /\ saida' = IF interrompida
                      THEN [estado |-> "corrompido", linhas |-> <<>>]
                      ELSE saida
    /\ log' = "erro_ao_processar"
    /\ pc' = TrataExcecao(pos).pc
    /\ pos' = TrataExcecao(pos).pos
    /\ UNCHANGED <<par, pasta, arquivos, SELECOES, amb, resultado, anexadas,
                   visitados, entrada, retorno>>

\* line 286: the for loop over arquivos is exhausted and the function
\* returns, its locals gone; line 332: next pair
FimDoPar ==
    /\ pc = "arquivo"
    /\ pos > Len(arquivos)
    /\ par' = par + 1
    /\ pc' = "par"
    /\ pasta' = PastaAusenteNoDisco
    /\ arquivos' = <<>>
    /\ pos' = 1
    /\ visitados' = <<>>
    /\ amb' = AmbVazio
    /\ resultado' = ResultadoVazio
    /\ UNCHANGED <<SELECOES, saida, anexadas, log, entrada, retorno>>

\* line 335
Concluir ==
    /\ pc = "par"
    /\ par > Len(ANOS_SEMESTRES)
    /\ pc' = "fim"
    /\ log' = "concluido"
    /\ UNCHANGED <<par, pasta, arquivos, pos, SELECOES, amb, resultado, saida,
                   anexadas, visitados, entrada, retorno>>

Next ==
    \/ PastaNaoEncontrada
    \/ ListarPar
    \/ OcrFalha
    \/ OcrOk
    \/ Classificar
    \/ GravarOk
    \/ GravarFalha
    \/ FimDoPar
    \/ Concluir

Spec == Init /\ [][Next]_vars

\* the script is one sequential thread: a step that can be taken is taken
SpecFair == Spec /\ WF_vars(Next)


-----------------------------------------------------------------------------
(* carregar_selecoes and listar_arquivos_para_processar under direct call *)

\* Largest number of items of selecoes.json and of entries of the folder
MaxItens == 2
MaxEntradas == 2

ArqEspacos == <<" ", "7", " ">> \o Png
Arq13 == <<"1", "3">> \o Png
Arq7Maiusculo == <<"7", ".", "P", "N", "G">>
Arq9 == <<"9">> \o Png

\* the entries a folder is drawn from, in the order os.listdir gives them
EntradasPossiveis ==
    << E(Arq13, TRUE), E(Arq7, TRUE), E(Arq7Txt, TRUE), E(Arq007, TRUE),
       E(ArqA, TRUE), E(Arq9, FALSE), E(Arq12, TRUE), E(Arq7Maiusculo, TRUE),
       E(ArqEspacos, TRUE) >>

\* the entries of u whose index is in S, in the order of u
Escolhidas(u, S) ==
    LET F[i \in 0..Len(u)] ==
            IF i = 0 THEN <<>>
            ELSE IF i \in S THEN Append(F[i - 1], u[i]) ELSE F[i - 1]
    IN  F[Len(u)]

PastasSel ==
    { PastaAusenteNoDisco } \cup
    { [existe |-> TRUE, entradas |-> Escolhidas(EntradasPossiveis, S)] :
        S \in { T \in SUBSET (1..Len(EntradasPossiveis)) :
                   Cardinality(T) <= MaxEntradas } }

ItensPossiveis ==
    { Item(2024, 1, QStr(<<"7">>)),
      Item(2024, 1, QStr(<<" ", "7", " ">>)),
      Item(2024, 1, QStr(<<"0", "0", "7">>)),
      Item(2024, 1, QInt(7)),
      Item(2024, 1, QStr(<<"a">>)),
      Item(2024, 2, QStr(<<"1", "2">>)),
      Item(2024, 1, QStr(<<"1", "2">>)) }

ArquivosSel ==
    { SemArquivo, NaoLista } \cup
    { Lista(is) : is \in UNION { [1..n -> ItensPossiveis] : n \in 0..MaxItens } }

RetornoSelVazio == [selecoes |-> DictVazio, arquivos |-> <<>>]

\* the variables of the run, at rest
ExecucaoParada ==
    /\ par = 1
    /\ pasta = PastaAusenteNoDisco
    /\ arquivos = <<>>
    /\ pos = 1
    /\ SELECOES = DictVazio
    /\ amb = AmbVazio
    /\ resultado = ResultadoVazio
    /\ saida = [estado |-> "ausente", linhas |-> <<>>]
    /\ anexadas = <<>>
    /\ log = "iniciando"
    /\ visitados = <<>>

InitSel ==
    /\ pc = "selecoes"
    /\ entrada \in [arq : ArquivosSel, pst : PastasSel, ano : {2024},
                    semestre : {1, 2}]
    /\ retorno = RetornoSelVazio
    /\ ExecucaoParada

\* line 98
ChamarCarregar ==
    /\ pc = "selecoes"
    /\ retorno' = [retorno EXCEPT !.selecoes = carregar_selecoes(entrada.arq)]
    /\ pc' = "carregado"
    /\ UNCHANGED <<par, pasta, arquivos, pos, SELECOES, amb, resultado, saida,
                   log, anexadas, visitados, entrada>>

\* line 283
ChamarListar ==
    /\ pc = "carregado"
    /\ retorno' = [retorno EXCEPT !.arquivos =
                      listar_arquivos_para_processar(entrada.pst, entrada.ano,
                          entrada.semestre, retorno.selecoes)]
    /\ pc' = "listado"
    /\ UNCHANGED <<par, pasta, arquivos, pos, SELECOES, amb, resultado, saida,
                   log, anexadas, visitados, entrada>>

NextSel == ChamarCarregar \/ ChamarListar

SpecSel == InitSel /\ [][NextSel]_vars

-----------------------------------------------------------------------------
(* processar_resposta_gemini under direct call *)

\* Largest length of a generated reply line, largest number of lines of a reply
MaxLinha == 6
MaxLinhasResposta == 2

LinhaExtra ==
    <<"|", " ", "1", " ", "|", " ", "M", "e", "c", "h", "a", "n", "i",
      "c", "s", " ", "|", " ", "K", "i", "n", "e", "m", "a", "t", "i",
      "c", "s", " ", "|", "e", "x", "t", "r", "a", "|">>
LinhaCinco ==
    <<"|", " ", "1", " ", "|", " ", "M", "e", "c", "h", "a", "n", "i",
      "c", "s", " ", "|", " ", "K", "i", "n", "e", "m", "a", "t", "i",
      "c", "s", " ", "|">>
LinhaCincoEspacos ==
    <<" ", " ", "|", " ", "1", " ", "|", " ", "M", "e", "c", "h", "a",
      "n", "i", "c", "s", " ", "|", " ", "K", "i", "n", "e", "m", "a",
      "t", "i", "c", "s", " ", "|", "\t">>
LinhaQuatro ==
    <<"|", " ", "M", "e", "c", "h", "a", "n", "i", "c", "s", " ", "|",
      " ", "K", "i", "n", "e", "m", "a", "t", "i", "c", "s", " ", "|">>
LinhaSemTema ==
    <<"|", " ", "1", " ", "|", " ", " ", "|", " ", "K", "i", "n", "e",
      "m", "a", "t", "i", "c", "s", " ", "|">>
LinhaTemaCinco ==
    <<"|", " ", "t", "e", "m", "a", " ", "x", " ", "|", " ", "y", " ",
      "|", " ", "z", " ", "|">>
LinhaSemBarra ==
    <<"M", "e", "c", "h", "a", "n", "i", "c", "s">>
Mechanics ==
    <<"M", "e", "c", "h", "a", "n", "i", "c", "s">>
Kinematics ==
    <<"K", "i", "n", "e", "m", "a", "t", "i", "c", "s">>

LinhasNomeadas ==
    { ExemploCabecalho, ExemploSeparador, ExemploLinha1, LinhaExtra, LinhaCinco,
      LinhaCincoEspacos, LinhaQuatro, LinhaSemTema, LinhaTemaCinco,
      LinhaSemBarra, <<>> }

LinhasGeradas == UNION { [1..n -> {"|", " ", "a"}] : n \in 0..MaxLinha }

RespostasParser ==
    { <<l>> : l \in LinhasGeradas } \cup
    UNION { [1..n -> LinhasNomeadas] : n \in 0..MaxLinhasResposta }

NumerosParser == { <<"1">>, <<"0", "7">> }

InitParser ==
    /\ pc = "parser"
    /\ entrada \in [linhas : RespostasParser, numero_questao : NumerosParser]
    /\ retorno = [ok |-> TRUE, linhas |-> <<>>, erro |-> <<>>]
    /\ ExecucaoParada

\* line 199
ChamarParser ==
    /\ pc = "parser"
    /\ retorno' = processar_resposta_gemini(Join(entrada.linhas),
                                            entrada.numero_questao)
    /\ pc' = "analisado"
    /\ UNCHANGED <<par, pasta, arquivos, pos, SELECOES, amb, resultado, saida,
                   log, anexadas, visitados, entrada>>

NextParser == ChamarParser

SpecParser == InitParser /\ [][NextParser]_vars


-----------------------------------------------------------------------------
(* Properties of the selection functions, checked under SpecSel *)

\* the names of EntradasPossiveis that carry an allowed extension
NomesPermitidos ==
    { Arq13, Arq7, Arq007, ArqA, Arq9, Arq12, Arq7Maiusculo, ArqEspacos }

\* the question number each of those names stands for
NumeroDerivado(nome) ==
    CASE nome = Arq13 -> <<"1", "3">>
      [] nome = Arq12 -> <<"1", "2">>
      [] nome = ArqA -> <<"a">>
      [] nome = Arq9 -> <<"9">>
      [] nome \in {Arq7, Arq007, Arq7Maiusculo, ArqEspacos} -> <<"7">>

\* the full candidate list of the folder of entrada
Candidatos ==
    LET Serve(e) == e.is_file /\ e.nome \in NomesPermitidos
    IN  Nomes(SelectSeq(entrada.pst.entradas, Serve))

ParConsultado == <<entrada.ano, entrada.semestre>>

\* the entry of the loaded SelectionSet for the pair asked about, {} if absent
EntradaDoPar ==
    IF ParConsultado \in DOMAIN retorno.selecoes
    THEN retorno.selecoes[ParConsultado]
    ELSE {}

ModoSelecao == \E k \in DOMAIN retorno.selecoes : retorno.selecoes[k] # {}

\* C1 as claimed: whenever the entry of the pair is absent or empty, the
\* filter returns the full candidate list of the folder, whatever the other
\* entries of the SelectionSet are.
C1_AbsentReturnsAll_Original ==
    (pc = "listado" /\ EntradaDoPar = {}) => retorno.arquivos = Candidatos

\* C1 amended: when the entry of the pair is absent or empty, the filter
\* returns the full candidate list only if no entry of the SelectionSet is
\* non-empty; if some other pair has a non-empty entry the pair is ignored
\* and the empty list is returned.
C1_AbsentReturnsAllUnlessSelectionMode ==
    (pc = "listado" /\ EntradaDoPar = {}) =>
        retorno.arquivos = IF ModoSelecao THEN <<>> ELSE Candidatos

C1_Witness ==
    /\ pc = "listado"
    /\ EntradaDoPar = {}
    /\ ModoSelecao
    /\ Candidatos # <<>>
    /\ retorno.arquivos = <<>>

\* C2: when the entry of the pair is non-empty, the filter returns exactly
\* the candidate files whose derived question number is an identifier of the
\* entry, in the candidates' order: nothing from outside the candidates, no
\* non-matching file, every matching file (7.png and 007.png alike), and the
\* empty list when nothing matches.
C2_SelectedFilesExactlyMatch ==
    (pc = "listado" /\ EntradaDoPar # {}) =>
        LET Selecionado(f) == NumeroDerivado(f) \in EntradaDoPar
        IN  retorno.arquivos = SelectSeq(Candidatos, Selecionado)

C2_Witness ==
    /\ pc = "listado"
    /\ EntradaDoPar = { <<"7">> }
    /\ retorno.arquivos = <<Arq7, Arq007>>
    /\ Len(Candidatos) = 2

\* the identifier a selecoes.json entry stands for: numbers by value, other
\* text trimmed
IdentificadorDe(q) ==
    CASE q = QStr(<<"7">>) -> <<"7">>
      [] q = QStr(<<" ", "7", " ">>) -> <<"7">>
      [] q = QStr(<<"0", "0", "7">>) -> <<"7">>
      [] q = QInt(7) -> <<"7">>
      [] q = QStr(<<"1", "2">>) -> <<"1", "2">>
      [] q = QStr(<<"a">>) -> <<"a">>

Numerico(q) == q # QStr(<<"a">>)

ItensLidos == IF entrada.arq.existe /\ entrada.arq.lista THEN entrada.arq.itens
              ELSE <<>>

\* the SelectionSet that holds the identifier of every item of the file
SelecoesEsperadas ==
    LET chaves == {<<ItensLidos[i].ano, ItensLidos[i].semestre>> :
                      i \in 1..Len(ItensLidos)}
    IN  [k \in chaves |->
            {IdentificadorDe(ItensLidos[i].questao) :
                i \in {j \in 1..Len(ItensLidos) :
                          <<ItensLidos[j].ano, ItensLidos[j].semestre>> = k}}]

\* a file named 7 of the folder is selected by the items "7", " 7 ", "007"
SeteSelecionado ==
    (/\ pc = "listado"
     /\ \E i \in 1..Len(ItensLidos) :
           /\ <<ItensLidos[i].ano, ItensLidos[i].semestre>> = ParConsultado
           /\ IdentificadorDe(ItensLidos[i].questao) = <<"7">>
     /\ \E j \in 1..Len(Candidatos) : Candidatos[j] = Arq7)
    => \E j \in 1..Len(retorno.arquivos) : retorno.arquivos[j] = Arq7

\* C8 as claimed: every identifier of the file is kept, normalised, in the
\* SelectionSet of its pair -- a numeric one by its integer value, a
\* non-numeric one trimmed, the other entries unaffected -- and "7", " 7 "
\* and "007" select the file whose base name is 7.
C8_IdentifiersNormalised_Original ==
    (pc \in {"carregado", "listado"} =>
        \A i \in 1..Len(ItensLidos) :
            LET k == <<ItensLidos[i].ano, ItensLidos[i].semestre>>
            IN  /\ k \in DOMAIN retorno.selecoes
                /\ IdentificadorDe(ItensLidos[i].questao) \in retorno.selecoes[k])
    /\ SeteSelecionado

\* C8 amended: when every identifier of the file is numeric, each is kept by
\* its integer value in the SelectionSet of its pair (so "7", " 7 ", "007"
\* and 7 all select the file whose base name is 7) and the SelectionSet holds
\* nothing else; when some identifier is not numeric the whole load fails
\* soft: the SelectionSet is empty, every other entry of the file is dropped
\* and the filter returns the full candidate list.
C8_NumericNormalisedElseEmpty ==
    /\ pc \in {"carregado", "listado"} =>
          IF \A i \in 1..Len(ItensLidos) : Numerico(ItensLidos[i].questao)
          THEN retorno.selecoes = SelecoesEsperadas
          ELSE retorno.selecoes = DictVazio
    /\ (\A i \in 1..Len(ItensLidos) : Numerico(ItensLidos[i].questao))
          => SeteSelecionado
    /\ (pc = "listado" /\ \E i \in 1..Len(ItensLidos) :
                              ~Numerico(ItensLidos[i].questao))
          => retorno.arquivos = Candidatos

C8_Witness ==
    /\ pc = "listado"
    /\ ItensLidos = <<Item(2024, 1, QStr(<<"a">>)), Item(2024, 1, QStr(<<"7">>))>>
    /\ retorno.selecoes = DictVazio
    /\ retorno.arquivos = <<Arq13, Arq7>>


-----------------------------------------------------------------------------
(* Properties of the parser, checked under SpecParser *)

\* positions of the delimiter in a line
Barras(l) == {i \in 1..Len(l) : l[i] = "|"}

\* number of fields of a line: one more than its delimiters
NumCampos(l) == Cardinality(Barras(l)) + 1

\* the j-th field of a line, trimmed: the text between the (j-1)-th and the
\* j-th delimiter
Campo(l, j) ==
    LET NaBarra(k) == CHOOSE i \in Barras(l) :
                          Cardinality({m \in Barras(l) : m <= i}) = k
        de == IF j = 1 THEN 1 ELSE NaBarra(j - 1) + 1
        ate == IF j = NumCampos(l) THEN Len(l) ELSE NaBarra(j) - 1
    IN  Strip(SubSeq(l, de, ate))

\* a line the parser is to discard: blank, without delimiter, header, separator
Descartada(l) ==
    \/ Strip(l) = <<>>
    \/ Barras(l) = {}
    \/ StartsWith(Strip(l), <<"|", " ", "t", "e", "m", "a">>)
    \/ StartsWith(Strip(l), <<"|", "-", "-", "-">>)

\* the lines of the reply that remain, trimmed, in order
Restantes ==
    LET Fica(l) == ~Descartada(l)
        r == SelectSeq(entrada.linhas, Fica)
    IN  [i \in 1..Len(r) |-> Strip(r[i])]

\* the rows of the remaining lines, when each of them has 5 fields
LinhasEsperadas ==
    LET Completa(l) == Campo(l, 3) # <<>> /\ Campo(l, 4) # <<>>
        r == SelectSeq(Restantes, Completa)
    IN  [i \in 1..Len(r) |->
            [numero_questao |-> entrada.numero_questao,
             tema |-> Campo(r[i], 3), topico |-> Campo(r[i], 4)]]

\* sub occurs in s
Ocorre(sub, s) ==
    \E i \in 1..(Len(s) - Len(sub) + 1) : SubSeq(s, i, i + Len(sub) - 1) = sub

\* the strict parser on any reply: rows from the 5-field lines, in order, or
\* an error naming the question and the first line of another field count
ParserEstrito ==
    pc = "analisado" =>
        IF \A i \in 1..Len(Restantes) : NumCampos(Restantes[i]) = 5
        THEN retorno.ok /\ retorno.linhas = LinhasEsperadas
        ELSE LET i == CHOOSE k \in 1..Len(Restantes) :
                          /\ NumCampos(Restantes[k]) # 5
                          /\ \A m \in 1..(k - 1) : NumCampos(Restantes[m]) = 5
             IN  /\ ~retorno.ok
                 /\ Ocorre(<<"Q">> \o entrada.numero_questao \o <<":">>,
                           retorno.erro)
                 /\ Ocorre(<<"'">> \o Restantes[i] \o <<"'">>, retorno.erro)

UmaLinhaMechanics ==
    /\ retorno.ok
    /\ retorno.linhas = << [numero_questao |-> entrada.numero_questao,
                            tema |-> Mechanics, topico |-> Kinematics] >>

\* C7 as claimed: the strict parser discards blank, delimiter-less, header
\* and separator lines; a remaining line of exactly 5 fields gives one row
\* iff theme and topic are non-empty, any other field count raises an error
\* naming the question and the line; and so the reply line
\* "| 1 | Mechanics | Kinematics |extra|" gives exactly one row (Mechanics,
\* Kinematics) while a 4-field line raises.
C7_StrictParser_Original ==
    /\ ParserEstrito
    /\ (pc = "analisado" /\ entrada.linhas = <<LinhaExtra>>) => UmaLinhaMechanics
    /\ (pc = "analisado" /\ entrada.linhas = <<LinhaQuatro>>) => ~retorno.ok

\* C7 amended: as claimed for every reply, except for the example: the line
\* "| 1 | Mechanics | Kinematics |extra|" splits into 6 fields and raises;
\* it is "| 1 | Mechanics | Kinematics |" that has 5 fields and gives exactly
\* one row (Mechanics, Kinematics).  A 4-field line raises.
C7_StrictParser ==
    /\ ParserEstrito
    /\ (pc = "analisado" /\ entrada.linhas = <<LinhaExtra>>) =>
          /\ ~retorno.ok
          /\ NumCampos(LinhaExtra) = 6
    /\ (pc = "analisado" /\ entrada.linhas = <<LinhaCinco>>) => UmaLinhaMechanics
    /\ (pc = "analisado" /\ entrada.linhas = <<LinhaQuatro>>) => ~retorno.ok

C7_Witness ==
    /\ pc = "analisado"
    /\ entrada.linhas = <<LinhaCinco, LinhaExtra>>
    /\ ~retorno.ok
    /\ Ocorre(LinhaExtra, retorno.erro)


-----------------------------------------------------------------------------
(* Properties of the run, checked under Spec and SpecFair *)

\* the rows the store holds before a rewrite
LinhasAntes == IF saida.estado = "ok" THEN saida.linhas ELSE <<>>

\* the step is a rewrite that completed: line 323 logged it
GravacaoCompleta == pc = "gravar" /\ log' = "salva"

\* the step is the loop body of a file ending in OCR's exception
OcrLevantou == pc = "arquivo" /\ pos <= Len(arquivos) /\ amb'.ocr = "raise"

\* the store gained exactly one row, an error row of the current file
UmaLinhaDeErroGravada ==
    /\ saida'.estado = "ok"
    /\ Len(saida'.linhas) = Len(LinhasAntes) + 1
    /\ SubSeq(saida'.linhas, 1, Len(LinhasAntes)) = LinhasAntes
    /\ LET l == saida'.linhas[Len(saida'.linhas)]
       IN  /\ l.arquivo = Arquivo
           /\ l.tema = Erro
           /\ StartsWith(l.topico, PrefixoErro)

\* C3 as claimed: when OCR (or opening the image) raises for a file, exactly
\* one row with theme ERRO and the failure in its topic is appended to the
\* store for that file, and the loop goes on to the next file.
C3_OcrFailureRow_Original ==
    [][OcrLevantou =>
          /\ UmaLinhaDeErroGravada
          /\ pc' = "arquivo"
          /\ pos' = pos + 1]_vars

\* C3 amended: when OCR (or opening the image) raises for a file, no row is
\* appended for that file: the store is left as it was, the error is logged,
\* and the loop goes on to the next file.
C3_OcrFailureSkipsFile ==
    [][OcrLevantou =>
          /\ saida' = saida
          /\ anexadas' = anexadas
          /\ log' = "erro_ao_processar"
          /\ pc' = "arquivo"
          /\ pos' = pos + 1
          /\ par' = par]_vars

C3_Witness ==
    /\ pc = "arquivo"
    /\ amb.ocr = "raise"
    /\ arquivos = <<Arq7, ArqA>>
    /\ pos = 2
    /\ saida = [estado |-> "ausente", linhas |-> <<>>]

\* what the parser makes of the model's reply for the current file
ParserDaResposta ==
    processar_resposta_gemini(Respostas[amb.resposta], NumeroQuestao)

\* an exception reaches the except clause of classificar_questao
FalhaNaClassificacao == amb.falha # "nenhuma" \/ ~ParserDaResposta.ok

\* int(numero_questao) raises inside the reference lookup
FalhaNaConsulta == ~IsDigit(Strip(NumeroQuestao))

MensagemDaFalha ==
    IF amb.falha = "prompt" THEN MsgPrompt
    ELSE IF amb.falha = "llm" THEN MsgLlm
    ELSE ParserDaResposta.erro

\* classificar_questao returned the error row and the two sentinels
ResultadoDeErro ==
    /\ resultado.classificacoes =
          << [numero_questao |-> NumeroQuestao, tema |-> Erro,
              topico |-> PrefixoErro \o MensagemDaFalha] >>
    /\ resultado.materia = Erro
    /\ resultado.gabarito = Erro

\* the rewrite appended that one row, with the sentinels
ErroPersistido ==
    /\ UmaLinhaDeErroGravada
    /\ LET l == saida'.linhas[Len(saida'.linhas)]
       IN  /\ l.topico = PrefixoErro \o MensagemDaFalha
           /\ l.materia = Erro
           /\ l.gabarito = Erro
           /\ l.numero_questao = NumeroQuestao

\* C4 as claimed: any exception raised inside classificar_questao -- the
\* reference lookup included -- is never propagated and leaves exactly one
\* persisted row for the file: theme ERRO, topic with the message, subject
\* and answer key ERRO, no row of earlier valid lines.
C4_ClassificationFailure_Original ==
    [][(pc = "gravar" /\ (FalhaNaClassificacao \/ FalhaNaConsulta)) =>
          /\ ResultadoDeErro
          /\ GravacaoCompleta => ErroPersistido]_vars

\* C4 amended: any exception that reaches the except clause of
\* classificar_questao (taxonomy ordering, prompt building, the LLM call,
\* response parsing, the field-count error on any line included) is never
\* propagated; the function returns exactly one row -- theme ERRO, topic
\* with the message, subject and answer key ERRO even if the lookup had
\* succeeded, no row of earlier valid lines -- and the rewrite, when it
\* completes, appends exactly that row.  An exception raised in the
\* reference lookup never reaches that clause: obter_info_questao absorbs it
\* and answers N/A, and the file is classified as usual.
C4_ClassificationFailure ==
    [][/\ (pc = "gravar" /\ FalhaNaClassificacao) =>
             /\ ResultadoDeErro
             /\ GravacaoCompleta => ErroPersistido
       /\ (pc = "gravar" /\ FalhaNaConsulta /\ ~FalhaNaClassificacao) =>
             /\ resultado.classificacoes = ParserDaResposta.linhas
             /\ resultado.materia = NaoDisponivel
             /\ resultado.gabarito = NaoDisponivel]_vars

C4_Witness ==
    /\ pc = "arquivo"
    /\ log = "salva"
    /\ par = 1
    /\ pos = 2
    /\ arquivos[1] = Arq7
    /\ amb.falha = "nenhuma"
    /\ amb.resposta = "parcial"
    /\ Len(saida.linhas) = 1
    /\ saida.linhas[1].tema = Erro
    /\ saida.linhas[1].materia = Erro

\* the reply parses without error into no row at all
RespostaSemLinhas ==
    /\ amb.falha = "nenhuma"
    /\ ParserDaResposta.ok
    /\ ParserDaResposta.linhas = <<>>

\* C5 as claimed: a reply that parses to no row is treated as malformed and
\* exactly one error row for the question is appended to the store.
C5_EmptyReplyErrorRow_Original ==
    [][(GravacaoCompleta /\ RespostaSemLinhas) => UmaLinhaDeErroGravada]_vars

\* C5 amended: a reply that parses to no row is not an error: the question
\* is classified with zero rows, the rewrite appends nothing (it creates an
\* empty store when there was none) and the file leaves no row in the store.
C5_EmptyReplyLeavesNoRow ==
    [][(pc = "gravar" /\ RespostaSemLinhas) =>
          /\ resultado.classificacoes = <<>>
          /\ GravacaoCompleta =>
                /\ saida'.estado = "ok"
                /\ saida'.linhas = LinhasAntes]_vars

C5_Witness ==
    /\ pc = "arquivo"
    /\ log = "salva"
    /\ amb.falha = "nenhuma"
    /\ amb.resposta = "semtopico"
    /\ saida = [estado |-> "ok", linhas |-> <<>>]

\* the rows of the file being persisted
NovasLinhas ==
    LinhasDaQuestao(Arquivo, Caminho, amb.texto, Ano, Semestre, resultado)

\* C6: each rewrite that completes sets the store to its previous rows, in
\* their order, followed by the file's new rows (the new rows alone when
\* there was no store); so the store always equals the in-order
\* concatenation of everything appended: nothing lost, changed, reordered
\* or deduplicated.
C6_StoreAppendOnly ==
    /\ [](saida.estado = "ok" => saida.linhas = anexadas)
    /\ [](saida.estado = "ausente" => anexadas = <<>>)
    /\ [][GravacaoCompleta =>
             /\ saida'.estado = "ok"
             /\ saida'.linhas = LinhasAntes \o NovasLinhas
             /\ anexadas' = anexadas \o NovasLinhas]_vars

C6_Witness ==
    /\ saida.estado = "ok"
    /\ saida.linhas = LinhasAnteriores \o LinhasAnteriores
    /\ LinhasAnteriores # <<>>

\* the step is an exception caught at the file level
ExcecaoNoArquivo == OcrLevantou \/ (pc = "gravar" /\ log' # "salva")

\* C9: pairs are visited in the listed order; an absent folder causes no
\* classification and no store write; for a present folder the loop body is
\* entered exactly once for each file the filter returned, in order, a file
\* being persisted before the next begins; an exception of one file is
\* caught at the file level and the next file, the later pairs and the end
\* of the run are still reached.
C9_RunLoop ==
    /\ [](pc \in {"par", "arquivo", "classificar", "gravar", "fim"})
    /\ [][par' = par \/ (par' = par + 1 /\ pc' = "par")]_vars
    /\ [](pc = "fim" => par = Len(ANOS_SEMESTRES) + 1)
    /\ [][(pc = "par" /\ log' = "pasta_nao_encontrada") =>
             /\ saida' = saida
             /\ anexadas' = anexadas
             /\ visitados' = <<>>
             /\ pc' = "par"]_vars
    /\ [](pc \in {"arquivo", "classificar", "gravar"} =>
             arquivos = listar_arquivos_para_processar(pasta, Ano, Semestre,
                                                       SELECOES))
    /\ [](pc = "arquivo" => visitados = SubSeq(arquivos, 1, pos - 1))
    /\ [](pc \in {"classificar", "gravar"} =>
             visitados = SubSeq(arquivos, 1, pos))
    /\ [][(pc = "arquivo" /\ pc' = "par") => visitados = arquivos]_vars
    /\ [][ExcecaoNoArquivo =>
             /\ pc' = "arquivo"
             /\ pos' = pos + 1
             /\ par' = par]_vars
    /\ <>(pc = "fim")

C9_Witness ==
    /\ pc = "fim"
    /\ log = "concluido"
    /\ saida.estado = "corrompido"
    /\ par = Len(ANOS_SEMESTRES) + 1

GrandezasFisicas ==
    <<"G", "r", "a", "n", "d", "e", "z", "a", "s", " ", "f", "i", "s",
      "i", "c", "a", "s">>
MedicaoDeTempo ==
    <<"M", "e", "d", "i", "c", "a", "o", " ", "d", "e", " ", "t", "e",
      "m", "p", "o">>
Eletrodinamica ==
    <<"E", "l", "e", "t", "r", "o", "d", "i", "n", "a", "m", "i", "c",
      "a">>
CorrenteEletrica ==
    <<"C", "o", "r", "r", "e", "n", "t", "e", " ", "e", "l", "e", "t",
      "r", "i", "c", "a">>
Eletrostatica ==
    <<"E", "l", "e", "t", "r", "o", "s", "t", "a", "t", "i", "c", "a">>
CargaEletrica ==
    <<"C", "a", "r", "g", "a", " ", "e", "l", "e", "t", "r", "i", "c",
      "a">>

\* the labels of the prompt's example, lines 180-182
RotulosDoExemplo ==
    << <<GrandezasFisicas, MedicaoDeTempo>>,
       <<Eletrodinamica, CorrenteEletrica>>,
       <<Eletrostatica, CargaEletrica>> >>

\* a reply in the format the prompt demands: header, separator, then one
\* line "| tema | topico |" per label
FormatoDoPrompt(rotulos) ==
    Join(<<ExemploCabecalho, ExemploSeparador>> \o
         [i \in 1..Len(rotulos) |->
             <<"|", " ">> \o rotulos[i][1] \o <<" ", "|", " ">>
                 \o rotulos[i][2] \o <<" ", "|">>])

\* C10: a reply in the format the prompt demands and exemplifies is accepted
\* by the parser and gives one row per data line with that line's theme and
\* topic, so classificar_questao returns those rows and not the error row.
C10_PromptFormatAccepted ==
    (/\ pc = "gravar"
     /\ amb.falha = "nenhuma"
     /\ Respostas[amb.resposta] = FormatoDoPrompt(RotulosDoExemplo))
    => /\ resultado.classificacoes =
             [i \in 1..Len(RotulosDoExemplo) |->
                 [numero_questao |-> NumeroQuestao,
                  tema |-> RotulosDoExemplo[i][1],
                  topico |-> RotulosDoExemplo[i][2]]]
       /\ resultado.materia # Erro

=============================================================================
